---------------------------- MODULE Spec2Model ----------------------------
(***************************************************************************)
(* A model of GPU/Common/VertexDecoderCommon.h of PPSSPP: the index        *)
(* converter and index bounds, the decoded-vertex reader (VertexReader),   *)
(* and the vertex decoder's planning (SetVertexType) and decoding          *)
(* (DecodeVerts) as far as the header and the specification describe them. *)
(*                                                                         *)
(* Five specifications share the module:                                   *)
(*   SpecIndex    IndexConverter::convert and GetIndexBounds               *)
(*   SpecReader   one VertexReader over a decoded buffer                   *)
(*   SpecReport   a sequence of VertexReaders sharing the report-once log  *)
(*   SpecPlanner  sequences of VertexDecoder::SetVertexType calls          *)
(*   SpecDecoder  VertexDecoder::SetVertexType and DecodeVerts             *)
(* Each leaves the other components' variables at their initial values.    *)
(***************************************************************************)
EXTENDS Integers, Sequences, FiniteSets, TLC

VARIABLES
    indices,    \* IndexConverter::indices: the index buffer, a sequence of bytes
    idxSrc,     \* history: the width and the values the buffer was filled from
    idxRet,     \* the last index operation and what it returned
    mem,        \* the decoded buffer VertexReader::base_ points to, by byte offset
    memSrc,     \* history: the sample each vertex of the buffer was filled from
    decFmt_,    \* VertexReader::decFmt_
    vtype_,     \* VertexReader::vtype_
    data_,      \* VertexReader::data_, as a byte offset from base_
    logOnce,    \* the identifiers ERROR_LOG_REPORT_ONCE has already reported
    reports,    \* the diagnostics raised so far, as (identifier, format), in order
    seenBad,    \* history: the (identifier, format) pairs that reached a default branch
    rdRet,      \* the last reader operation and what it returned
    dec,        \* the VertexDecoder: its fields set by SetVertexType
    decArgs,    \* history: the arguments of the last SetVertexType call
    decRet      \* the last decoder operation and what it did

idxVars == <<indices, idxSrc, idxRet>>
rdVars == <<mem, memSrc, decFmt_, vtype_, data_, logOnce, reports, seenBad, rdRet>>

decVars == <<dec, decArgs, decRet>>

vars == <<indices, idxSrc, idxRet,
          mem, memSrc, decFmt_, vtype_, data_, logOnce, reports, seenBad, rdRet,
          dec, decArgs, decRet>>

NoRet == [op |-> "none"]

(***************************************************************************)
(* Bounds of the model.                                                    *)
(***************************************************************************)
MaxCount == 3

\* Index values the buffers are filled from: small ones, and 70000, which
\* needs more than 16 bits.
IndexValues == {2, 5, 9, 70000}

(***************************************************************************)
(* GPU/ge_constants.h: the index-width field of the vertex type.           *)
(***************************************************************************)
GE_VTYPE_IDX_NONE == 0 * (2 ^ 11)
GE_VTYPE_IDX_8BIT == 1 * (2 ^ 11)
GE_VTYPE_IDX_16BIT == 2 * (2 ^ 11)
GE_VTYPE_IDX_32BIT == 3 * (2 ^ 11)
GE_VTYPE_IDX_MASK == 3 * (2 ^ 11)

\* vertType & GE_VTYPE_IDX_MASK: the two-bit field, in place.
MaskIdx(vertType) ==
    ((vertType \div (GE_VTYPE_IDX_MASK \div 3)) % 4) * (GE_VTYPE_IDX_MASK \div 3)

(***************************************************************************)
(* Little-endian memory: the w bytes of element i of a byte buffer.        *)
(***************************************************************************)
ByteOf(v, j) == (v \div (256 ^ j)) % 256

\* The buffer holding vals as w-byte little-endian elements (each value
\* stored modulo 2^(8w), as a store of that width does).
Encode(w, vals) ==
    [k \in 1..(Len(vals) * w) |-> ByteOf(vals[((k - 1) \div w) + 1], (k - 1) % w)]

\* indices8[index], indices16[index], indices32[index]: a load of w bytes
\* at byte offset index * w, zero-extended.
RECURSIVE LoadLE(_, _, _)
LoadLE(buf, at, w) ==
    IF w = 0 THEN 0
    ELSE buf[at + 1] + 256 * LoadLE(buf, at + 1, w - 1)

IndexWidth(indexType) ==
    IF indexType = GE_VTYPE_IDX_8BIT THEN 1
    ELSE IF indexType = GE_VTYPE_IDX_16BIT THEN 2
    ELSE IF indexType = GE_VTYPE_IDX_32BIT THEN 4
    ELSE 0

(***************************************************************************)
(* class IndexConverter                                                    *)
(***************************************************************************)
\* The constructor: indexType(vertType & GE_VTYPE_IDX_MASK).
IndexConverter(vertType, buf) ==
    [indices |-> buf, indexType |-> MaskIdx(vertType)]

convert_ignoresWidth(conv, index) ==
    IF conv.indexType = GE_VTYPE_IDX_NONE THEN index
    ELSE LoadLE(conv.indices, index, 1)

convert(conv, index) ==
    IF conv.indexType = GE_VTYPE_IDX_8BIT THEN LoadLE(conv.indices, index, 1)
    ELSE IF conv.indexType = GE_VTYPE_IDX_16BIT THEN LoadLE(conv.indices, index * 2, 2)
    ELSE IF conv.indexType = GE_VTYPE_IDX_32BIT THEN LoadLE(conv.indices, index * 4, 4)
    ELSE index

(***************************************************************************)
(* GetIndexBounds.  The header declares it with u16 outputs; its body is   *)
(* taken from the specification: scan count entries, return (min, max).    *)
(***************************************************************************)
\* A store through u16 *indexLowerBound / u16 *indexUpperBound.
ToU16(x) == x % 65536

SetMin(S) == CHOOSE x \in S : \A y \in S : x <= y
SetMax(S) == CHOOSE x \in S : \A y \in S : x >= y

\* The entries the scan reads: the first count elements at the declared width.
Scanned(buf, count, vertType) ==
    {LoadLE(buf, i * IndexWidth(MaskIdx(vertType)), IndexWidth(MaskIdx(vertType))) :
        i \in 0..(count - 1)}

\* The result for an empty scan: the scan's starting bounds, an empty
\* interval (lower above upper).
EmptyBoundsLower == 65535
EmptyBoundsUpper == 0

GetIndexBounds(buf, count, vertType) ==
    IF count = 0
    THEN [lower |-> ToU16(EmptyBoundsLower), upper |-> ToU16(EmptyBoundsUpper)]
    ELSE [lower |-> ToU16(SetMin(Scanned(buf, count, vertType))),
          upper |-> ToU16(SetMax(Scanned(buf, count, vertType)))]

(***************************************************************************)
(* The decoded formats (enum, "Keep this in 4 bits").                      *)
(***************************************************************************)
DEC_NONE == 0
DEC_FLOAT_1 == 1
DEC_FLOAT_2 == 2
DEC_FLOAT_3 == 3
DEC_FLOAT_4 == 4
DEC_S8_3 == 5
DEC_S16_3 == 6
DEC_U8_1 == 7
DEC_U8_2 == 8
DEC_U8_3 == 9
DEC_U8_4 == 10
DEC_U16_1 == 11
DEC_U16_2 == 12
DEC_U16_3 == 13
DEC_U16_4 == 14
\* One past the last defined encoding: still fits the format's 4 bits.
DEC_PAST_LAST == DEC_U16_4 + 1

RoundUp4_truncates(x) == x - (x % 4)

\* (x + 3) & ~3, for x >= 0.
RoundUp4(x) == (x + 3) - ((x + 3) % 4)

\* Bytes per component and components of a decoded format.
DecFmtCompSize(fmt) ==
    IF fmt \in {DEC_FLOAT_1, DEC_FLOAT_2, DEC_FLOAT_3, DEC_FLOAT_4} THEN 4
    ELSE IF fmt \in {DEC_S16_3, DEC_U16_1, DEC_U16_2, DEC_U16_3, DEC_U16_4} THEN 2
    ELSE IF fmt \in {DEC_S8_3, DEC_U8_1, DEC_U8_2, DEC_U8_3, DEC_U8_4} THEN 1
    ELSE 0

DecFmtComps(fmt) ==
    IF fmt \in {DEC_FLOAT_1, DEC_U8_1, DEC_U16_1} THEN 1
    ELSE IF fmt \in {DEC_FLOAT_2, DEC_U8_2, DEC_U16_2} THEN 2
    ELSE IF fmt \in {DEC_FLOAT_3, DEC_S8_3, DEC_S16_3, DEC_U8_3, DEC_U16_3} THEN 3
    ELSE IF fmt \in {DEC_FLOAT_4, DEC_U8_4, DEC_U16_4} THEN 4
    ELSE 0

\* int DecFmtSize(u8 fmt): the bytes a decoded attribute takes, at the
\* layout's 4-byte granularity; 0 for DEC_NONE and for an unknown format.
DecFmtSize(fmt) == RoundUp4(DecFmtComps(fmt) * DecFmtCompSize(fmt))

\* A DecVtxFormat with the attributes packed in the struct's order.  The
\* offsets are u8 fields, the stride a short.
PackDecVtxFormat(uvfmt, c0fmt, c1fmt, nrmfmt, posfmt) ==
    LET uvoff == 0
        c0off == uvoff + DecFmtSize(uvfmt)
        c1off == c0off + DecFmtSize(c0fmt)
        nrmoff == c1off + DecFmtSize(c1fmt)
        posoff == nrmoff + DecFmtSize(nrmfmt) IN
    [uvfmt |-> uvfmt, uvoff |-> uvoff % 256,
     c0fmt |-> c0fmt, c0off |-> c0off % 256,
     c1fmt |-> c1fmt, c1off |-> c1off % 256,
     nrmfmt |-> nrmfmt, nrmoff |-> nrmoff % 256,
     posfmt |-> posfmt, posoff |-> posoff % 256,
     stride |-> posoff + DecFmtSize(posfmt)]

(***************************************************************************)
(* Floats are modelled as exact rationals <<n, d>>, d > 0.  <<1, 0>> is a  *)
(* float too large for an int.  Integer lanes of the buffer hold their raw *)
(* bits, float lanes hold the rational.                                    *)
(***************************************************************************)
Rat(n, d) == <<n, d>>
Zero == Rat(0, 1)
One == Rat(1, 1)
Huge == Rat(1, 0)

\* x * (1.0f / d) for an integer x.
Scale(x, d) == Rat(x, d)

Trunc(r) == IF r[1] >= 0 THEN r[1] \div r[2] ELSE -((-r[1]) \div r[2])

IntMax == 2147483647
IntMin == (-2147483647) - 1

\* (int)f.  Out of int's range the conversion is undefined: the builds give
\* INT_MIN (x86) or saturate (ARM).
CastToInt(r) == IF r[2] = 0 THEN {IntMin, IntMax} ELSE {Trunc(r)}

RatGtOne(r) == r[1] > r[2]
RatLtZero(r) == r[1] < 0

\* Reinterpreting raw bits as signed.
AsS16(u) == IF u >= 32768 THEN u - 65536 ELSE u
AsS8(u) == IF u >= 128 THEN u - 256 ELSE u

GE_VTYPE_THROUGH == 2 ^ 23

(***************************************************************************)
(* class VertexReader.  A reader is [mem, data_, decFmt_, vtype_]; base_   *)
(* is offset 0 of mem.                                                     *)
(***************************************************************************)
isThrough(rd) == ((rd.vtype_ \div GE_VTYPE_THROUGH) % 2) /= 0

\* The three lanes of size w at data_ + off.
Lanes3(rd, off, w) == [i \in 0..2 |-> rd.mem[rd.data_ + off + i * w]]

ZeroFloats(n) == [i \in 0..(n - 1) |-> Zero]

PosSupported(fmt) == fmt \in {DEC_FLOAT_3, DEC_S16_3, DEC_S8_3}
NrmSupported(fmt) == fmt \in {DEC_FLOAT_3, DEC_S16_3, DEC_S8_3}
UVSupported(fmt) == fmt \in {DEC_U8_2, DEC_U16_2, DEC_FLOAT_2}

ReadPos_noClamp(rd, zi) ==
    LET fmt == rd.decFmt_.posfmt
        l == Lanes3(rd, rd.decFmt_.posoff, DecFmtCompSize(fmt)) IN
    IF fmt = DEC_FLOAT_3 THEN
        IF isThrough(rd) THEN [i \in 0..2 |-> IF i = 2 THEN Scale(zi, 65535) ELSE l[i]]
        ELSE l
    ELSE IF fmt = DEC_S16_3 THEN
        IF isThrough(rd)
        THEN [i \in 0..2 |-> IF i = 2 THEN Scale(l[2], 65535) ELSE Rat(AsS16(l[i]), 1)]
        ELSE [i \in 0..2 |-> Scale(AsS16(l[i]), 32768)]
    ELSE IF fmt = DEC_S8_3 THEN
        IF isThrough(rd)
        THEN [i \in 0..2 |-> IF i = 2 THEN Scale(l[2], 255) ELSE Rat(AsS8(l[i]), 1)]
        ELSE [i \in 0..2 |-> Scale(AsS8(l[i]), 128)]
    ELSE ZeroFloats(3)

\* void ReadPos(float pos[3]) const.  zi is the value of (int)pos[2].
ReadPos(rd, zi) ==
    LET fmt == rd.decFmt_.posfmt
        l == Lanes3(rd, rd.decFmt_.posoff, DecFmtCompSize(fmt)) IN
    IF fmt = DEC_FLOAT_3 THEN
        IF isThrough(rd)
        THEN LET z == Scale(zi, 65535) IN
             [i \in 0..2 |->
                 IF i = 2
                 THEN (IF RatGtOne(z) THEN One ELSE IF RatLtZero(z) THEN Zero ELSE z)
                 ELSE l[i]]
        ELSE l
    ELSE IF fmt = DEC_S16_3 THEN
        \* X and Y are signed 16 bit, Z is unsigned 16 bit
        IF isThrough(rd)
        THEN [i \in 0..2 |-> IF i = 2 THEN Scale(l[2], 65535) ELSE Rat(AsS16(l[i]), 1)]
        ELSE [i \in 0..2 |-> Scale(AsS16(l[i]), 32768)]
    ELSE IF fmt = DEC_S8_3 THEN
        \* X and Y are signed 8 bit, Z is unsigned 8 bit
        IF isThrough(rd)
        THEN [i \in 0..2 |-> IF i = 2 THEN Scale(l[2], 255) ELSE Rat(AsS8(l[i]), 1)]
        ELSE [i \in 0..2 |-> Scale(AsS8(l[i]), 128)]
    ELSE ZeroFloats(3)

\* void ReadPosThroughZ16(float pos[3]) const.
ReadPosThroughZ16(rd, zi) ==
    LET fmt == rd.decFmt_.posfmt
        l == Lanes3(rd, rd.decFmt_.posoff, DecFmtCompSize(fmt)) IN
    IF fmt = DEC_FLOAT_3 THEN
        IF isThrough(rd)
        THEN LET z == Rat(zi, 1) IN
             [i \in 0..2 |->
                 IF i = 2
                 THEN (IF zi > 65535 THEN Rat(65535, 1) ELSE IF zi < 0 THEN Zero ELSE z)
                 ELSE l[i]]
        ELSE l
    ELSE IF fmt = DEC_S16_3 THEN
        IF isThrough(rd)
        THEN [i \in 0..2 |-> IF i = 2 THEN Rat(l[2], 1) ELSE Rat(AsS16(l[i]), 1)]
        ELSE [i \in 0..2 |-> Scale(AsS16(l[i]), 32768)]
    ELSE IF fmt = DEC_S8_3 THEN
        IF isThrough(rd)
        THEN [i \in 0..2 |-> IF i = 2 THEN Rat(l[2], 1) ELSE Rat(AsS8(l[i]), 1)]
        ELSE [i \in 0..2 |-> Scale(AsS8(l[i]), 128)]
    ELSE ZeroFloats(3)

ReadNrm_noZeroFill(rd) ==
    LET fmt == rd.decFmt_.nrmfmt
        l == Lanes3(rd, rd.decFmt_.nrmoff, DecFmtCompSize(fmt)) IN
    IF fmt = DEC_FLOAT_3 THEN l
    ELSE IF fmt = DEC_S16_3 THEN [i \in 0..2 |-> Scale(AsS16(l[i]), 32767)]
    ELSE IF fmt = DEC_S8_3 THEN [i \in 0..2 |-> Scale(AsS8(l[i]), 127)]
    ELSE [i \in 0..2 |-> One]

\* void ReadNrm(float nrm[3]) const.
ReadNrm(rd) ==
    LET fmt == rd.decFmt_.nrmfmt
        l == Lanes3(rd, rd.decFmt_.nrmoff, DecFmtCompSize(fmt)) IN
    IF fmt = DEC_FLOAT_3 THEN l
    ELSE IF fmt = DEC_S16_3 THEN [i \in 0..2 |-> Scale(AsS16(l[i]), 32767)]
    ELSE IF fmt = DEC_S8_3 THEN [i \in 0..2 |-> Scale(AsS8(l[i]), 127)]
    ELSE ZeroFloats(3)

\* void ReadUV(float uv[2]) const.
ReadUV(rd) ==
    LET fmt == rd.decFmt_.uvfmt
        w == DecFmtCompSize(fmt)
        l == [i \in 0..1 |-> rd.mem[rd.data_ + rd.decFmt_.uvoff + i * w]] IN
    IF fmt = DEC_U8_2 THEN [i \in 0..1 |-> Scale(l[i], 128)]
    ELSE IF fmt = DEC_U16_2 THEN [i \in 0..1 |-> Scale(l[i], 32768)]
    ELSE IF fmt = DEC_FLOAT_2 THEN l
    ELSE ZeroFloats(2)

\* void Goto(int index): data_ = base_ + index * decFmt_.stride.
Goto_fixedStride(fmt, index) == index * 4

Goto(fmt, index) == index * fmt.stride

(***************************************************************************)
(* ERROR_LOG_REPORT_ONCE(n, t, ...): the report is keyed by the identifier *)
(* n alone (fmtpos, fmtz16, fmtnrm, fmtuv); the format is an argument of   *)
(* the message.                                                            *)
(***************************************************************************)
ReportIds == {"fmtpos", "fmtz16", "fmtnrm", "fmtuv"}

ShouldLogOnce_always(logged, id) == TRUE

ShouldLogOnce(logged, id) == id \notin logged

(***************************************************************************)
(* class VertexDecoder.  The header declares SetVertexType and DecodeVerts *)
(* and the decoder's fields; what they do is taken from the specification  *)
(* (FormatPlanner, Interpreter, CodeGenerator).                            *)
(***************************************************************************)
\* The steps_[5] array ("The decoding steps. Never more than 5.").
StepsCapacity == 5

\* (v >> shift) & (2^width - 1)
Field(v, shift, width) == (v \div (2 ^ shift)) % (2 ^ width)

\* The fields of the packed vertex type (GPU/ge_constants.h).
VType(tc, col, nrm, pos, weighttype, nweights, morphcount, through) ==
    tc + col * (2 ^ 2) + nrm * (2 ^ 5) + pos * (2 ^ 7) + weighttype * (2 ^ 9)
    + (nweights - 1) * (2 ^ 14) + (morphcount - 1) * (2 ^ 18)
    + (IF through THEN GE_VTYPE_THROUGH ELSE 0)

Unset == [slot |-> "unset"]

Align(x, a) == IF a <= 1 THEN x ELSE ((x + a - 1) \div a) * a

\* Source sizes by format tag: 8-bit, 16-bit, float components; packed colors.
SrcCompSize(tag) == IF tag = 1 THEN 1 ELSE IF tag = 2 THEN 2 ELSE IF tag = 3 THEN 4 ELSE 0
SrcColSize(col) == IF col = 7 THEN 4 ELSE IF col >= 4 THEN 2 ELSE 0

\* The input record: each present attribute at its natural alignment, in
\* slot order; the record padded to its biggest alignment; one record per
\* morph target.
InputSize(tc, col, nrm, pos, weighttype, nweights, morphcount) ==
    LET s1 == IF weighttype /= 0
              THEN Align(0, SrcCompSize(weighttype)) + SrcCompSize(weighttype) * nweights
              ELSE 0
        s2 == IF tc /= 0 THEN Align(s1, SrcCompSize(tc)) + 2 * SrcCompSize(tc) ELSE s1
        s3 == IF col /= 0 THEN Align(s2, SrcColSize(col)) + SrcColSize(col) ELSE s2
        s4 == IF nrm /= 0 THEN Align(s3, SrcCompSize(nrm)) + 3 * SrcCompSize(nrm) ELSE s3
        s5 == Align(s4, SrcCompSize(pos)) + 3 * SrcCompSize(pos)
        biggest == SetMax({SrcCompSize(weighttype), SrcCompSize(tc), SrcColSize(col),
                           SrcCompSize(nrm), SrcCompSize(pos)}) IN
    Align(s5, biggest) * morphcount

\* The pipeline: at most one step per slot, in slot order.
PlanSteps(tc, col, nrm, pos, weighttype, morphcount, through) ==
    LET skin == weighttype /= 0
        morph == morphcount > 1
        mk(slot, enc) == [slot |-> slot, enc |-> enc, skin |-> skin, morph |-> morph,
                          through |-> through] IN
    (IF skin THEN <<mk("weights", weighttype)>> ELSE <<>>)
    \o (IF tc /= 0 THEN <<mk("texcoord", tc)>> ELSE <<>>)
    \* an unsupported color encoding (1..3) still gets its step: a zero fill
    \o (IF col /= 0 THEN <<mk("color", col)>> ELSE <<>>)
    \o (IF nrm /= 0 THEN <<mk("normal", nrm)>> ELSE <<>>)
    \o <<mk("position", pos)>>

\* The decoded layout: texcoord float2, color 4 x u8, normal float3 unless
\* kept narrow, position float3; packed in that order.
PlanDecFmt(tc, col, nrm, pos, weighttype, morphcount, options) ==
    LET wide == weighttype /= 0 \/ morphcount > 1
        nrmfmt == IF nrm = 0 THEN DEC_NONE
                  ELSE IF nrm = 1
                  THEN (IF options.expand8BitNormalsToFloat \/ wide
                        THEN DEC_FLOAT_3 ELSE DEC_S8_3)
                  ELSE IF nrm = 2 THEN (IF wide THEN DEC_FLOAT_3 ELSE DEC_S16_3)
                  ELSE DEC_FLOAT_3 IN
    PackDecVtxFormat(IF tc /= 0 THEN DEC_FLOAT_2 ELSE DEC_NONE,
                     IF col /= 0 THEN DEC_U8_4 ELSE DEC_NONE,
                     DEC_NONE, nrmfmt, DEC_FLOAT_3)

\* JittedVertexDecoder Compile(const VertexDecoder &dec, int32_t *jittedSize):
\* a function, or null when a step has no native implementation or the code
\* would be too large.
Compile(compiles) == IF compiles THEN "jitted" ELSE "null"

\* void SetVertexType(u32 vtype, const VertexDecoderOptions &options,
\*                    VertexDecoderJitCache *jitCache = nullptr)
\* jit is "none" (no cache given), "ok" or "fails" (what Compile will do).
SetVertexType_appends(d, fmt, options, jit) ==
    LET tc == Field(fmt, 0, 2)
        col == Field(fmt, 2, 3)
        nrm == Field(fmt, 5, 2)
        pos == Field(fmt, 7, 2)
        weighttype == Field(fmt, 9, 2)
        nweights == Field(fmt, 14, 3) + 1
        morphcount == Field(fmt, 18, 3) + 1
        through == Field(fmt, 23, 1) /= 0
        steps == PlanSteps(tc, col, nrm, pos, weighttype, morphcount, through) IN
    [fmt_ |-> fmt, throughmode |-> through,
     tc |-> tc, col |-> col, nrm |-> nrm, pos |-> pos,
     weighttype |-> weighttype, nweights |-> nweights, morphcount |-> morphcount,
     idx |-> Field(fmt, 11, 2),
     numSteps_ |-> d.numSteps_ + Len(steps),
     steps_ |-> [i \in 0..(StepsCapacity - 1) |->
                    IF i < d.numSteps_ THEN d.steps_[i]
                    ELSE IF i < d.numSteps_ + Len(steps) THEN steps[i - d.numSteps_ + 1]
                    ELSE Unset],
     decFmt |-> PlanDecFmt(tc, col, nrm, pos, weighttype, morphcount, options),
     size |-> InputSize(tc, col, nrm, pos, weighttype, nweights, morphcount) % 256,
     jitted_ |-> IF jit = "none" THEN "null" ELSE Compile(jit = "ok")]

SetVertexType(d, fmt, options, jit) ==
    LET tc == Field(fmt, 0, 2)
        col == Field(fmt, 2, 3)
        nrm == Field(fmt, 5, 2)
        pos == Field(fmt, 7, 2)
        weighttype == Field(fmt, 9, 2)
        nweights == Field(fmt, 14, 3) + 1
        morphcount == Field(fmt, 18, 3) + 1
        through == Field(fmt, 23, 1) /= 0
        steps == PlanSteps(tc, col, nrm, pos, weighttype, morphcount, through) IN
    [fmt_ |-> fmt, throughmode |-> through,
     tc |-> tc, col |-> col, nrm |-> nrm, pos |-> pos,
     weighttype |-> weighttype, nweights |-> nweights, morphcount |-> morphcount,
     idx |-> Field(fmt, 11, 2),
     \* the pipeline is rebuilt from numSteps_ = 0
     numSteps_ |-> Len(steps),
     steps_ |-> [i \in 0..(StepsCapacity - 1) |->
                    IF i < Len(steps) THEN steps[i + 1] ELSE Unset],
     decFmt |-> PlanDecFmt(tc, col, nrm, pos, weighttype, morphcount, options),
     \* u8 size
     size |-> InputSize(tc, col, nrm, pos, weighttype, nweights, morphcount) % 256,
     jitted_ |-> IF jit = "none" THEN "null" ELSE Compile(jit = "ok")]

\* VertexDecoder(): nothing planned, nothing compiled.
NewVertexDecoder ==
    [fmt_ |-> 0, throughmode |-> FALSE, tc |-> 0, col |-> 0, nrm |-> 0, pos |-> 0,
     weighttype |-> 0, nweights |-> 0, morphcount |-> 0, idx |-> 0,
     numSteps_ |-> 0, steps_ |-> [i \in 0..(StepsCapacity - 1) |-> Unset],
     decFmt |-> PackDecVtxFormat(DEC_NONE, DEC_NONE, DEC_NONE, DEC_NONE, DEC_NONE),
     size |-> 0, jitted_ |-> "null"]

\* One vertex: every step of the pipeline, in order, on (ptr_, decoded_).
\* A step call is <<index in steps_, step, ptr_, decoded_>>.
StepCalls(d, ptr, out) ==
    [i \in 1..d.numSteps_ |-> <<i - 1, d.steps_[i - 1], ptr, out>>]

\* The interpreter: for each index of [lower, upper], the input record at
\* verts + index * size, the output record at decoded + (index - lower) * stride.
RECURSIVE Interpret(_, _, _, _, _, _)
Interpret(d, decoded, verts, lower, index, upper) ==
    IF index > upper THEN <<>>
    ELSE StepCalls(d, verts + index * d.size, decoded + (index - lower) * d.decFmt.stride)
         \o Interpret(d, decoded, verts, lower, index + 1, upper)

\* The compiled function (src, dst, count): count contiguous vertices from
\* src into dst, both pointers advanced by their strides after each vertex,
\* until count reaches zero.
RECURSIVE Jitted(_, _, _, _)
Jitted(d, src, dst, count) ==
    IF count = 0 THEN <<>>
    ELSE StepCalls(d, src, dst) \o Jitted(d, src + d.size, dst + d.decFmt.stride, count - 1)

\* void DecodeVerts(u8 *decoded, const void *verts, int indexLowerBound,
\*                  int indexUpperBound) const
DecodeVerts_requiresJit(d, decoded, verts, lower, upper) ==
    IF d.jitted_ /= "null"
    THEN [path |-> "jitted",
          calls |-> Jitted(d, verts + lower * d.size, decoded, upper - lower + 1)]
    ELSE [path |-> "none", calls |-> <<>>]

DecodeVerts(d, decoded, verts, lower, upper) ==
    IF d.jitted_ /= "null"
    THEN [path |-> "jitted",
          calls |-> Jitted(d, verts + lower * d.size, decoded, upper - lower + 1)]
    ELSE [path |-> "steps",
          calls |-> Interpret(d, decoded, verts, lower, lower, upper)]

(***************************************************************************)
(* The decoded buffers the readers are run on.  Vertex 0 is filled from a  *)
(* sample [x, z, n] (which X/Y pair, which Z, which normal and texcoord);  *)
(* the later vertices from a fixed one.                                    *)
(***************************************************************************)
NumVerts == 2

PosFloat == << <<Rat(-3, 1), Rat(241, 2)>>, <<Rat(7, 1), Rat(-9, 2)>>,
               <<Rat(-100, 1), Zero, Rat(3, 2), Rat(65535, 1), Rat(70000, 1), Huge>> >>
\* raw bits: 65533 is -3, 65532 is -4, 65436 is -100, 4464 is 70000 mod 2^16
PosS16 == << <<65533, 120>>, <<7, 65532>>, <<65436, 0, 1, 65535, 4464, 32768>> >>
PosS8 == << <<253, 120>>, <<7, 252>>, <<156, 0, 1, 255, 112, 128>> >>
NrmFloat == << <<One, Zero, Rat(-1, 2)>>, <<Zero, Rat(-1, 1), Rat(1, 4)>> >>
NrmS16 == << <<32767, 0, 32769>>, <<0, 32769, 8192>> >>
NrmS8 == << <<127, 0, 129>>, <<0, 129, 32>> >>
UVFloat == << <<Rat(1, 2), Rat(3, 4)>>, <<Zero, One>> >>
UVU8 == << <<64, 128>>, <<0, 255>> >>
UVU16 == << <<16384, 32768>>, <<0, 65535>> >>

Samples == [x : 1..2, z : 1..6, n : 1..2]
LaterSample == [x |-> 2, z |-> 3, n |-> 2]

PosLane(fmt, s, i) ==
    LET t == IF fmt = DEC_FLOAT_3 THEN PosFloat
             ELSE IF fmt = DEC_S16_3 THEN PosS16 ELSE PosS8 IN
    t[i + 1][IF i = 2 THEN s.z ELSE s.x]

NrmLane(fmt, s, i) ==
    LET t == IF fmt = DEC_FLOAT_3 THEN NrmFloat
             ELSE IF fmt = DEC_S16_3 THEN NrmS16 ELSE NrmS8 IN
    t[s.n][i + 1]

UVLane(fmt, s, i) ==
    LET t == IF fmt = DEC_FLOAT_2 THEN UVFloat
             ELSE IF fmt = DEC_U16_2 THEN UVU16 ELSE UVU8 IN
    t[s.n][i + 1]

\* Offset o of a record is the start of a lane of the attribute at off.
LaneStart(o, off, fmt) ==
    /\ DecFmtCompSize(fmt) > 0
    /\ o >= off
    /\ o < off + DecFmtComps(fmt) * DecFmtCompSize(fmt)
    /\ (o - off) % DecFmtCompSize(fmt) = 0

CellAt(fmt, s, o) ==
    IF PosSupported(fmt.posfmt) /\ LaneStart(o, fmt.posoff, fmt.posfmt)
    THEN PosLane(fmt.posfmt, s, (o - fmt.posoff) \div DecFmtCompSize(fmt.posfmt))
    ELSE IF NrmSupported(fmt.nrmfmt) /\ LaneStart(o, fmt.nrmoff, fmt.nrmfmt)
    THEN NrmLane(fmt.nrmfmt, s, (o - fmt.nrmoff) \div DecFmtCompSize(fmt.nrmfmt))
    ELSE IF UVSupported(fmt.uvfmt) /\ LaneStart(o, fmt.uvoff, fmt.uvfmt)
    THEN UVLane(fmt.uvfmt, s, (o - fmt.uvoff) \div DecFmtCompSize(fmt.uvfmt))
    ELSE 0

FillMem(fmt, samples) ==
    [a \in 0..(Len(samples) * fmt.stride - 1) |->
        CellAt(fmt, samples[(a \div fmt.stride) + 1], a % fmt.stride)]

SamplesFrom(s) == [v \in 1..NumVerts |-> IF v = 1 THEN s ELSE LaterSample]

\* VertexReader(u8 *base, const DecVtxFormat &decFmt, int vtype)
VertexReader(fmt, vtype, s) ==
    /\ mem' = FillMem(fmt, SamplesFrom(s))
    /\ memSrc' = SamplesFrom(s)
    /\ decFmt_' = fmt
    /\ vtype_' = vtype
    /\ data_' = 0
    /\ rdRet' = [op |-> "VertexReader"]
    /\ UNCHANGED <<logOnce, reports, seenBad>>
    /\ UNCHANGED <<idxVars, decVars>>

ThisReader == [mem |-> mem, data_ |-> data_, decFmt_ |-> decFmt_, vtype_ |-> vtype_]

\* The default branch of a Read: ERROR_LOG_REPORT_ONCE(id, G3D, ..., fmt).
ReportOnce(id, fmt, unsupported) ==
    IF unsupported
    THEN /\ logOnce' = logOnce \cup {id}
         /\ reports' = IF ShouldLogOnce(logOnce, id)
                       THEN Append(reports, <<id, fmt>>)
                       ELSE reports
         /\ seenBad' = seenBad \cup {<<id, fmt>>}
    ELSE UNCHANGED <<logOnce, reports, seenBad>>

\* The outcomes of (int)pos[2] where the reader evaluates it.
ZCasts ==
    IF decFmt_.posfmt = DEC_FLOAT_3 /\ isThrough(ThisReader)
    THEN CastToInt(mem[data_ + decFmt_.posoff + 8])
    ELSE {0}

CallGoto(index) ==
    /\ data_' = Goto(decFmt_, index)
    /\ rdRet' = [op |-> "Goto", index |-> index]
    /\ UNCHANGED <<mem, memSrc, decFmt_, vtype_, logOnce, reports, seenBad>>
    /\ UNCHANGED <<idxVars, decVars>>

CallReadPos ==
    /\ \E zi \in ZCasts :
          rdRet' = [op |-> "ReadPos", at |-> data_, value |-> ReadPos(ThisReader, zi)]
    /\ ReportOnce("fmtpos", decFmt_.posfmt, ~PosSupported(decFmt_.posfmt))
    /\ UNCHANGED <<mem, memSrc, decFmt_, vtype_, data_, idxVars, decVars>>

CallReadPosThroughZ16 ==
    /\ \E zi \in ZCasts :
          rdRet' = [op |-> "ReadPosThroughZ16", at |-> data_,
                    value |-> ReadPosThroughZ16(ThisReader, zi)]
    /\ ReportOnce("fmtz16", decFmt_.posfmt, ~PosSupported(decFmt_.posfmt))
    /\ UNCHANGED <<mem, memSrc, decFmt_, vtype_, data_, idxVars, decVars>>

CallReadNrm ==
    /\ rdRet' = [op |-> "ReadNrm", at |-> data_, value |-> ReadNrm(ThisReader)]
    /\ ReportOnce("fmtnrm", decFmt_.nrmfmt, ~NrmSupported(decFmt_.nrmfmt))
    /\ UNCHANGED <<mem, memSrc, decFmt_, vtype_, data_, idxVars, decVars>>

CallReadUV ==
    /\ rdRet' = [op |-> "ReadUV", at |-> data_, value |-> ReadUV(ThisReader)]
    /\ ReportOnce("fmtuv", decFmt_.uvfmt, ~UVSupported(decFmt_.uvfmt))
    /\ UNCHANGED <<mem, memSrc, decFmt_, vtype_, data_, idxVars, decVars>>

(***************************************************************************)
(* The initial values of the components a specification does not run.      *)
(***************************************************************************)
IdleIndex ==
    /\ indices = <<>>
    /\ idxSrc = [w |-> 1, vals |-> <<>>]
    /\ idxRet = NoRet

IdleReader ==
    /\ mem = <<>>
    /\ memSrc = <<>>
    /\ decFmt_ = PackDecVtxFormat(DEC_NONE, DEC_NONE, DEC_NONE, DEC_NONE, DEC_NONE)
    /\ vtype_ = 0
    /\ data_ = 0
    /\ logOnce = {}
    /\ reports = <<>>
    /\ seenBad = {}
    /\ rdRet = NoRet

IdleDecoder ==
    /\ dec = NewVertexDecoder
    /\ decArgs = [set |-> FALSE]
    /\ decRet = NoRet

(***************************************************************************)
(* SpecIndex: a buffer of up to MaxCount elements of one width, then any   *)
(* sequence of convert and GetIndexBounds calls on it.                     *)
(***************************************************************************)
IdxVertTypes ==
    {GE_VTYPE_IDX_NONE, GE_VTYPE_IDX_8BIT, GE_VTYPE_IDX_16BIT, GE_VTYPE_IDX_32BIT,
     \* with other fields of the vertex type set (position float, through mode)
     GE_VTYPE_IDX_16BIT + VType(0, 0, 0, 3, 0, 1, 1, TRUE)}

InitIndex ==
    /\ \E w \in {1, 2, 4} : \E n \in 0..MaxCount : \E vals \in [1..n -> IndexValues] :
          /\ idxSrc = [w |-> w, vals |-> vals]
          /\ indices = Encode(w, vals)
    /\ idxRet = NoRet
    /\ IdleReader
    /\ IdleDecoder

\* The caller guarantees the element is inside the buffer.
Convert(vertType, index) ==
    LET conv == IndexConverter(vertType, indices)
        w == IndexWidth(conv.indexType) IN
    /\ (index + 1) * w <= Len(indices)
    /\ idxRet' = [op |-> "convert", vertType |-> vertType, index |-> index,
                  indexType |-> conv.indexType, value |-> convert(conv, index)]
    /\ UNCHANGED <<indices, idxSrc, rdVars, decVars>>

\* The claims about GetIndexBounds are about the three index widths.
CallGetIndexBounds(vertType, count) ==
    /\ IndexWidth(MaskIdx(vertType)) > 0
    /\ count * IndexWidth(MaskIdx(vertType)) <= Len(indices)
    /\ idxRet' = [op |-> "bounds", vertType |-> vertType, count |-> count,
                  bounds |-> GetIndexBounds(indices, count, vertType)]
    /\ UNCHANGED <<indices, idxSrc, rdVars, decVars>>

NextIndex ==
    \/ \E vt \in IdxVertTypes : \E i \in 0..(MaxCount * 4) : Convert(vt, i)
    \/ \E vt \in IdxVertTypes : \E n \in 0..MaxCount : CallGetIndexBounds(vt, n)

SpecIndex == InitIndex /\ [][NextIndex]_vars

(***************************************************************************)
(* SpecReader: one reader, constructed over any of the layouts below, in   *)
(* through mode or not, then any sequence of Goto and Read calls.          *)
(***************************************************************************)
ReaderFmts ==
    {PackDecVtxFormat(uv, c0, DEC_NONE, nrm, pos) :
        uv \in {DEC_FLOAT_2, DEC_U8_2, DEC_U16_2, DEC_NONE},
        c0 \in {DEC_NONE, DEC_U8_4},
        nrm \in {DEC_FLOAT_3, DEC_S16_3, DEC_S8_3, DEC_NONE, DEC_PAST_LAST},
        pos \in {DEC_FLOAT_3, DEC_S16_3, DEC_S8_3, DEC_FLOAT_4}}

\* through mode off and on
ReaderVTypes == {VType(0, 0, 0, 3, 0, 1, 1, FALSE), VType(0, 0, 0, 3, 0, 1, 1, TRUE)}

InitReaderWith(fmts, vtypes, samples) ==
    /\ \E fmt \in fmts : \E vt \in vtypes : \E s \in samples :
          /\ mem = FillMem(fmt, SamplesFrom(s))
          /\ memSrc = SamplesFrom(s)
          /\ decFmt_ = fmt
          /\ vtype_ = vt
    /\ data_ = 0
    /\ logOnce = {}
    /\ reports = <<>>
    /\ seenBad = {}
    /\ rdRet = NoRet

InitReader == IdleIndex /\ IdleDecoder /\ InitReaderWith(ReaderFmts, ReaderVTypes, Samples)

NextReader ==
    \/ \E i \in 0..(NumVerts - 1) : CallGoto(i)
    \/ CallReadPos
    \/ CallReadPosThroughZ16
    \/ CallReadNrm
    \/ CallReadUV

SpecReader == InitReader /\ [][NextReader]_vars

(***************************************************************************)
(* SpecReport: readers are constructed one after another over layouts with *)
(* supported and unsupported formats; the report-once log outlives them.   *)
(***************************************************************************)
ReportFmts ==
    {PackDecVtxFormat(DEC_FLOAT_2, DEC_NONE, DEC_NONE, nrm, pos) :
        nrm \in {DEC_S16_3, DEC_NONE, DEC_PAST_LAST},
        pos \in {DEC_FLOAT_3, DEC_FLOAT_4}}

ReportVType == VType(0, 0, 0, 3, 0, 1, 1, FALSE)

InitReport ==
    IdleIndex /\ IdleDecoder /\ InitReaderWith(ReportFmts, {ReportVType}, {LaterSample})

NextReport ==
    \/ \E fmt \in ReportFmts : VertexReader(fmt, ReportVType, LaterSample)
    \/ \E i \in 0..(NumVerts - 1) : CallGoto(i)
    \/ CallReadPos
    \/ CallReadPosThroughZ16
    \/ CallReadNrm
    \/ CallReadUV

SpecReport == InitReport /\ [][NextReport]_vars

(***************************************************************************)
(* SpecPlanner: any sequence of SetVertexType calls on one decoder.        *)
(* SpecDecoder: SetVertexType with or without a jit cache, whose Compile   *)
(* succeeds or returns null, and DecodeVerts over index ranges.            *)
(***************************************************************************)
MaxLower == 2
MaxIndex == 9
VertsBase == 4096
DecodedBase == 8192

AllOptions ==
    [expandAllWeightsToFloat : {FALSE}, expand8BitNormalsToFloat : BOOLEAN]

DecoderOptions ==
    [expandAllWeightsToFloat |-> FALSE, expand8BitNormalsToFloat |-> FALSE]

PlannerVTypes ==
    {VType(tc, col, nrm, pos, wt, 2, 1, th) :
        tc \in {0, 2}, col \in {0, 1, 7}, nrm \in 0..3, pos \in {1, 3},
        wt \in {0, 1}, th \in BOOLEAN}

DecoderVTypes ==
    {VType(tc, col, nrm, pos, wt, 2, mc, FALSE) :
        tc \in {0, 3}, col \in {7}, nrm \in {0, 1}, pos \in {3},
        wt \in {0, 1}, mc \in {1, 2}}

CallSetVertexType(vtype, options, jit) ==
    /\ dec' = SetVertexType(dec, vtype, options, jit)
    /\ decArgs' = [set |-> TRUE, vtype |-> vtype, options |-> options, jit |-> jit,
                   again |-> decArgs.set]
    /\ decRet' = [op |-> "SetVertexType"]
    /\ UNCHANGED <<idxVars, rdVars>>

\* A range is decoded only when it is not empty (lower <= upper), by a
\* decoder whose vertex type has been set.
CallDecodeVerts(lower, upper) ==
    /\ dec.numSteps_ > 0
    /\ lower <= upper
    /\ decRet' = [op |-> "DecodeVerts", lower |-> lower, upper |-> upper,
                  out |-> DecodeVerts(dec, DecodedBase, VertsBase, lower, upper)]
    /\ UNCHANGED <<dec, decArgs, idxVars, rdVars>>

InitDecoder == IdleIndex /\ IdleReader /\ IdleDecoder

NextPlanner ==
    \E vt \in PlannerVTypes : \E o \in AllOptions : CallSetVertexType(vt, o, "none")

SpecPlanner == InitDecoder /\ [][NextPlanner]_vars

NextDecoder ==
    \/ \E vt \in DecoderVTypes : \E jit \in {"none", "ok", "fails"} :
          CallSetVertexType(vt, DecoderOptions, jit)
    \/ \E lower \in 0..MaxLower : \E upper \in 0..MaxIndex : CallDecodeVerts(lower, upper)

SpecDecoder == InitDecoder /\ [][NextDecoder]_vars

(***************************************************************************)
(*                              The claims                                 *)
(***************************************************************************)

\* The number of places of seq whose entry satisfies Test.
CountOf(seq, Test(_)) == Cardinality({j \in 1..Len(seq) : Test(seq[j])})

-----------------------------------------------------------------------------
\* C2 (SpecDecoder).  DecodeVerts(decoded, verts, lower, upper) runs the
\* pipeline once on every index of [lower, upper] and on no other: the calls
\* are, index by index and in pipeline order, step k on the input record at
\* verts + i * size and the output record at decoded + (i - lower) * stride,
\* which is where a reader's Goto(i - lower) looks; upper - lower + 1 records
\* are written.  It holds on the interpreted and on the compiled path.
C2_DecodeRange ==
    decRet.op = "DecodeVerts" =>
        LET lo == decRet.lower
            hi == decRet.upper
            n == dec.numSteps_
            calls == decRet.out.calls
            src(i) == VertsBase + i * dec.size
            dst(i) == DecodedBase + Goto(dec.decFmt, i - lo) IN
        /\ Len(calls) = (hi - lo + 1) * n
        /\ \A i \in lo..hi : \A k \in 0..(n - 1) :
              calls[(i - lo) * n + k + 1] = <<k, dec.steps_[k], src(i), dst(i)>>
        /\ \A i \in lo..hi : LET AtI(c) == c[3] = src(i) IN CountOf(calls, AtI) = n
        /\ Cardinality({calls[j][4] : j \in 1..Len(calls)}) = hi - lo + 1
        /\ \A j \in 1..Len(calls) : \E i \in lo..hi : calls[j][3] = src(i)

\* The example of the claim: bounds (2, 9) give 8 records, index 5 at record 3.
C2_Witness ==
    /\ decRet.op = "DecodeVerts"
    /\ decRet.lower = 2
    /\ decRet.upper = 9
    /\ dec.numSteps_ = 5
    /\ Cardinality({decRet.out.calls[j][4] : j \in 1..Len(decRet.out.calls)}) = 8
    /\ \E j \in 1..Len(decRet.out.calls) :
          /\ decRet.out.calls[j][3] = VertsBase + 5 * dec.size
          /\ decRet.out.calls[j][4] = DecodedBase + 3 * dec.decFmt.stride

-----------------------------------------------------------------------------
\* C3 (SpecDecoder).  Without a compiled function (no jit cache given, or
\* Compile returned null) the decoder is planned exactly as with one, only
\* jitted_ is null; and DecodeVerts then runs the interpreter's steps on
\* every record of the range.
C3_InterpreterFallback ==
    /\ (decArgs.set /\ decArgs.jit \in {"none", "fails"}) =>
          /\ dec.jitted_ = "null"
          /\ dec.numSteps_ >= 1
          /\ dec = [SetVertexType(NewVertexDecoder, decArgs.vtype, decArgs.options, "ok")
                       EXCEPT !.jitted_ = "null"]
    /\ (decRet.op = "DecodeVerts" /\ dec.jitted_ = "null") =>
          LET lo == decRet.lower
              hi == decRet.upper
              n == dec.numSteps_
              calls == decRet.out.calls IN
          /\ decRet.out.path = "steps"
          /\ Len(calls) = (hi - lo + 1) * n
          /\ \A r \in 0..(hi - lo) : \A k \in 0..(n - 1) :
                \E j \in 1..Len(calls) :
                    /\ calls[j][1] = k
                    /\ calls[j][4] = DecodedBase + r * dec.decFmt.stride

C3_Witness ==
    /\ decRet.op = "DecodeVerts"
    /\ decArgs.set
    /\ decArgs.jit = "fails"
    /\ decRet.upper > decRet.lower
    /\ decRet.out.path = "steps"
    /\ Len(decRet.out.calls) >= 2 * dec.numSteps_

-----------------------------------------------------------------------------
\* C4 (SpecIndex).  convert(i) returns i when the index bits of the vertex
\* type say "none", and otherwise element i of the buffer at the declared
\* width, zero-extended: for a buffer written at that width, the value that
\* was written (modulo the width).  The width is the index field of the
\* vertex type alone, and convert leaves the buffer as it was.
C4_ConvertValue ==
    idxRet.op = "convert" =>
        LET i == idxRet.index
            t == idxRet.indexType
            v == idxRet.value IN
        /\ t \in {GE_VTYPE_IDX_NONE, GE_VTYPE_IDX_8BIT, GE_VTYPE_IDX_16BIT,
                  GE_VTYPE_IDX_32BIT}
        /\ (idxRet.vertType - t) % 2048 = idxRet.vertType % 2048
        /\ ((idxRet.vertType - t) \div 2048) % 4 = 0
        /\ t = GE_VTYPE_IDX_NONE => v = i
        /\ t = GE_VTYPE_IDX_8BIT =>
              /\ v = indices[i + 1]
              /\ idxSrc.w = 1 => v = idxSrc.vals[i + 1] % 256
        /\ t = GE_VTYPE_IDX_16BIT =>
              /\ v = indices[2 * i + 1] + 256 * indices[2 * i + 2]
              /\ idxSrc.w = 2 => v = idxSrc.vals[i + 1] % 65536
        /\ t = GE_VTYPE_IDX_32BIT =>
              /\ v = indices[4 * i + 1] + 256 * indices[4 * i + 2]
                     + 65536 * indices[4 * i + 3] + 16777216 * indices[4 * i + 4]
              /\ idxSrc.w = 4 => v = idxSrc.vals[i + 1]

C4_Convert ==
    /\ []C4_ConvertValue
    /\ [][idxRet'.op = "convert" => indices' = indices]_vars

\* A 16-bit read of element 2 of a 16-bit buffer, the vertex type carrying
\* other fields too; and a 32-bit read of 70000.
C4_Witness ==
    /\ idxRet.op = "convert"
    /\ idxRet.vertType = GE_VTYPE_IDX_16BIT + VType(0, 0, 0, 3, 0, 1, 1, TRUE)
    /\ idxRet.index = 2
    /\ idxSrc.w = 2
    /\ idxSrc.vals = <<5, 2, 9>>
    /\ idxRet.value = 9

-----------------------------------------------------------------------------
\* C5 (SpecIndex), as claimed: for count >= 1 and each index width,
\* GetIndexBounds returns the minimum and the maximum of the scanned
\* entries, so every scanned entry lies within the bounds.
C5_BoundsAreMinMax ==
    (idxRet.op = "bounds" /\ idxRet.count >= 1) =>
        LET S == Scanned(indices, idxRet.count, idxRet.vertType) IN
        /\ idxRet.bounds.lower = SetMin(S)
        /\ idxRet.bounds.upper = SetMax(S)
        /\ \A x \in S : idxRet.bounds.lower <= x /\ x <= idxRet.bounds.upper

-----------------------------------------------------------------------------
\* The sample the vertex under the cursor was filled from, and its stored Z.
SampleAt(at) == memSrc[(at \div decFmt_.stride) + 1]
StoredZ(at) == PosLane(decFmt_.posfmt, SampleAt(at), 2)

\* X and Y of the samples, as the signed integers the integer formats hold.
SignedXY == << <<-3, 7>>, <<120, -4>> >>

InUnit(r) == r[1] >= 0 /\ r[1] <= r[2]

\* C6 (SpecReader), as amended.  In through mode ReadPos yields Z in [0, 1]
\* and ReadPosThroughZ16 Z in [0, 65535], X and Y unnormalized.  Only a
\* float position is clamped (Z truncated to an integer; -100.0 gives 0,
\* 70000.0 gives 1.0, resp. 65535.0); a signed-16 position has its Z read as
\* unsigned 16 bit (the bits of -100 give 65436 / 65535, resp. 65436.0), a
\* signed-8 position as the unsigned byte (/ 255, resp. raw).
C6_ThroughZ ==
    (rdRet.op \in {"ReadPos", "ReadPosThroughZ16"} /\ isThrough(ThisReader)
     /\ PosSupported(decFmt_.posfmt)) =>
        LET v == rdRet.value
            z == StoredZ(rdRet.at)
            s == SampleAt(rdRet.at)
            norm == rdRet.op = "ReadPos"
            fmt == decFmt_.posfmt IN
        /\ norm => InUnit(v[2])
        /\ ~norm => (v[2][2] = 1 /\ v[2][1] >= 0 /\ v[2][1] <= 65535)
        /\ fmt = DEC_FLOAT_3 =>
              /\ v[0] = PosFloat[1][s.x] /\ v[1] = PosFloat[2][s.x]
              /\ z = Rat(-100, 1) => v[2] = Zero
              /\ z = Rat(70000, 1) => v[2] = (IF norm THEN One ELSE Rat(65535, 1))
              /\ z = Rat(3, 2) => v[2] = (IF norm THEN Rat(1, 65535) ELSE Rat(1, 1))
              /\ z = Rat(65535, 1) => v[2] = Rat(65535, IF norm THEN 65535 ELSE 1)
              /\ z = Huge => v[2] \in {Zero, IF norm THEN One ELSE Rat(65535, 1)}
        /\ fmt = DEC_S16_3 =>
              /\ v[0] = Rat(SignedXY[s.x][1], 1) /\ v[1] = Rat(SignedXY[s.x][2], 1)
              /\ v[2] = Rat(z, IF norm THEN 65535 ELSE 1)
              /\ s.z = 1 => v[2][1] = 65436
        /\ fmt = DEC_S8_3 =>
              /\ v[0] = Rat(SignedXY[s.x][1], 1) /\ v[1] = Rat(SignedXY[s.x][2], 1)
              /\ v[2] = Rat(z, IF norm THEN 255 ELSE 1)

\* The clamp at work: a float position in through mode, Z = 70000.0, read
\* through ReadPos as 1.0.
C6_Witness ==
    /\ rdRet.op = "ReadPos"
    /\ isThrough(ThisReader)
    /\ decFmt_.posfmt = DEC_FLOAT_3
    /\ StoredZ(rdRet.at) = Rat(70000, 1)
    /\ rdRet.value[2] = One

\* C6 as claimed: for a signed-16 position in through mode whose Z holds
\* the bits of -100, ReadPos returns Z = 0.0; for the Z equivalent to 70000
\* ReadPos returns 1.0 and ReadPosThroughZ16 65535.0.
C6_AsClaimed ==
    (rdRet.op \in {"ReadPos", "ReadPosThroughZ16"} /\ isThrough(ThisReader)
     /\ decFmt_.posfmt = DEC_S16_3) =>
        /\ (rdRet.op = "ReadPos" /\ StoredZ(rdRet.at) = 65436) => rdRet.value[2][1] = 0
        /\ (rdRet.op = "ReadPos" /\ StoredZ(rdRet.at) = 4464) =>
              rdRet.value[2][1] = rdRet.value[2][2]
        /\ (rdRet.op = "ReadPosThroughZ16" /\ StoredZ(rdRet.at) = 4464) =>
              rdRet.value[2] = Rat(65535, 1)

-----------------------------------------------------------------------------
\* What the supported formats read back, from the sample alone.
ExpectNrm(fmt, s) ==
    IF fmt = DEC_FLOAT_3 THEN [i \in 0..2 |-> NrmFloat[s.n][i + 1]]
    ELSE IF fmt = DEC_S16_3 THEN [i \in 0..2 |-> Rat(AsS16(NrmS16[s.n][i + 1]), 32767)]
    ELSE [i \in 0..2 |-> Rat(AsS8(NrmS8[s.n][i + 1]), 127)]

ExpectUV(fmt, s) ==
    IF fmt = DEC_FLOAT_2 THEN [i \in 0..1 |-> UVFloat[s.n][i + 1]]
    ELSE IF fmt = DEC_U16_2 THEN [i \in 0..1 |-> Rat(UVU16[s.n][i + 1], 32768)]
    ELSE [i \in 0..1 |-> Rat(UVU8[s.n][i + 1], 128)]

ExpectPos(fmt, s) ==
    IF fmt = DEC_FLOAT_3
    THEN [i \in 0..2 |-> PosFloat[i + 1][IF i = 2 THEN s.z ELSE s.x]]
    ELSE IF fmt = DEC_S16_3
    THEN [i \in 0..2 |-> Rat(IF i = 2 THEN AsS16(PosS16[3][s.z]) ELSE SignedXY[s.x][i + 1],
                             32768)]
    ELSE [i \in 0..2 |-> Rat(IF i = 2 THEN AsS8(PosS8[3][s.z]) ELSE SignedXY[s.x][i + 1],
                             128)]

ReadOps == {"ReadPos", "ReadPosThroughZ16", "ReadNrm", "ReadUV"}

\* C7 (SpecReader), the values: a Read of an attribute whose format is
\* outside the supported set returns zeros for that attribute; every Read of
\* a supported attribute, on this vertex or a later one, returns the stored
\* values whatever the formats of the other attributes are.
C7_Values ==
    /\ (rdRet.op \in {"ReadPos", "ReadPosThroughZ16"} /\ ~PosSupported(decFmt_.posfmt)) =>
          rdRet.value = [i \in 0..2 |-> Zero]
    /\ (rdRet.op = "ReadNrm" /\ ~NrmSupported(decFmt_.nrmfmt)) =>
          rdRet.value = [i \in 0..2 |-> Zero]
    /\ (rdRet.op = "ReadUV" /\ ~UVSupported(decFmt_.uvfmt)) =>
          rdRet.value = [i \in 0..1 |-> Zero]
    /\ (rdRet.op = "ReadNrm" /\ NrmSupported(decFmt_.nrmfmt)) =>
          rdRet.value = ExpectNrm(decFmt_.nrmfmt, SampleAt(rdRet.at))
    /\ (rdRet.op = "ReadUV" /\ UVSupported(decFmt_.uvfmt)) =>
          rdRet.value = ExpectUV(decFmt_.uvfmt, SampleAt(rdRet.at))
    /\ (rdRet.op \in {"ReadPos", "ReadPosThroughZ16"} /\ PosSupported(decFmt_.posfmt)
        /\ ~isThrough(ThisReader)) =>
          rdRet.value = ExpectPos(decFmt_.posfmt, SampleAt(rdRet.at))

\* C7 (SpecReader): the values above, and a Read moves neither the cursor
\* nor the buffer.
C7_UnsupportedZeroFill ==
    /\ []C7_Values
    /\ [][rdRet'.op \in ReadOps => (data_' = data_ /\ mem' = mem)]_vars

\* After the normal of one past the last encoding was read (and reported),
\* the position of the second vertex is read with its stored values.
C7_Witness ==
    /\ decFmt_.nrmfmt = DEC_PAST_LAST
    /\ <<"fmtnrm", DEC_PAST_LAST>> \in seenBad
    /\ rdRet.op = "ReadPos"
    /\ rdRet.at = decFmt_.stride
    /\ decFmt_.posfmt = DEC_S16_3
    /\ ~isThrough(ThisReader)
    /\ rdRet.value = [i \in 0..2 |-> Rat(<<120, -4, 1>>[i + 1], 32768)]

-----------------------------------------------------------------------------
\* C8 (SpecReport), as amended.  The diagnostic is raised once per read
\* operation (per identifier: fmtpos, fmtz16, fmtnrm, fmtuv), by the first
\* unsupported format that operation meets: not again for further vertices,
\* for other readers, or for a different unsupported format of the same
\* attribute.
C8_OncePerCallSite ==
    /\ \A id \in ReportIds :
          LET IsId(r) == r[1] = id IN
          CountOf(reports, IsId) = (IF \E c \in seenBad : c[1] = id THEN 1 ELSE 0)
    /\ \A j \in 1..Len(reports) : reports[j] \in seenBad
    /\ logOnce = {c[1] : c \in seenBad}

\* Two unsupported normal formats have been read, on both vertices, and one
\* diagnostic was raised for the normal.
C8_Witness ==
    /\ {<<"fmtnrm", DEC_NONE>>, <<"fmtnrm", DEC_PAST_LAST>>} \subseteq seenBad
    /\ LET IsNrm(r) == r[1] = "fmtnrm" IN CountOf(reports, IsNrm) = 1
    /\ rdRet.op = "ReadNrm"
    /\ rdRet.at = decFmt_.stride

\* C8 as claimed: every distinct bad (attribute, format) combination that
\* occurred has raised its diagnostic exactly once.
C8_AsClaimed ==
    \A c \in seenBad : LET IsC(r) == r = c IN CountOf(reports, IsC) = 1

-----------------------------------------------------------------------------
MaxRound == 40

\* The attributes of a DecVtxFormat as <<format, offset>>, and the present ones.
AttrsOf(f) ==
    << <<f.uvfmt, f.uvoff>>, <<f.c0fmt, f.c0off>>, <<f.c1fmt, f.c1off>>,
       <<f.nrmfmt, f.nrmoff>>, <<f.posfmt, f.posoff>> >>
Present(f) == {k \in 1..5 : AttrsOf(f)[k][1] /= DEC_NONE}

RECURSIVE SumSizes(_, _)
SumSizes(f, k) == IF k = 0 THEN 0 ELSE DecFmtSize(AttrsOf(f)[k][1]) + SumSizes(f, k - 1)

\* C9 (SpecPlanner).  In the DecVtxFormat SetVertexType produces, the byte
\* ranges of the present attributes are pairwise disjoint and within
\* [0, stride); stride is a multiple of 4 and at least the sum of the
\* attribute sizes; RoundUp4(x) is the least multiple of 4 that is >= x.
C9_Layout ==
    /\ \A x \in 0..MaxRound :
          RoundUp4(x) % 4 = 0 /\ RoundUp4(x) >= x /\ RoundUp4(x) < x + 4
    /\ decArgs.set =>
          LET f == dec.decFmt
              a == AttrsOf(f) IN
          /\ \A k \in Present(f) :
                a[k][2] >= 0 /\ a[k][2] + DecFmtSize(a[k][1]) <= f.stride
          /\ \A k \in Present(f) : DecFmtSize(a[k][1]) > 0
          /\ \A k, l \in Present(f) :
                k /= l => \/ a[k][2] + DecFmtSize(a[k][1]) <= a[l][2]
                          \/ a[l][2] + DecFmtSize(a[l][1]) <= a[k][2]
          /\ f.stride % 4 = 0
          /\ f.stride >= SumSizes(f, 5)

\* Texcoord, color, a normal kept as signed 8 bit (3 bytes, rounded up to
\* 4) and the position: 8 + 4 + 4 + 12 bytes.
C9_Witness ==
    /\ decArgs.set
    /\ dec.decFmt.uvfmt = DEC_FLOAT_2
    /\ dec.decFmt.c0fmt = DEC_U8_4
    /\ dec.decFmt.nrmfmt = DEC_S8_3
    /\ dec.decFmt.posfmt = DEC_FLOAT_3
    /\ dec.decFmt.posoff = 16
    /\ dec.decFmt.stride = 28

-----------------------------------------------------------------------------
SlotRank(slot) ==
    IF slot = "weights" THEN 0 ELSE IF slot = "texcoord" THEN 1
    ELSE IF slot = "color" THEN 2 ELSE IF slot = "normal" THEN 3
    ELSE IF slot = "position" THEN 4 ELSE 5

\* C10 (SpecPlanner).  After any sequence of SetVertexType calls the
\* pipeline holds at most 5 steps, the rest of steps_ unset; the steps are
\* of different slots, in the order weights, texcoord, color, normal,
\* position; and they are the steps of the last call alone, one per
\* attribute its vertex type has.
C10_Pipeline ==
    LET n == dec.numSteps_ IN
    /\ n >= 0 /\ n <= 5
    /\ DOMAIN dec.steps_ = 0..4
    /\ \A i \in 0..4 : i >= n => dec.steps_[i] = Unset
    /\ \A i \in 0..4 : i < n => SlotRank(dec.steps_[i].slot) <= 4
    /\ \A i \in 0..3 :
          i + 1 < n => SlotRank(dec.steps_[i].slot) < SlotRank(dec.steps_[i + 1].slot)
    /\ decArgs.set =>
          LET has(shift, width) == IF Field(decArgs.vtype, shift, width) /= 0 THEN 1 ELSE 0 IN
          n = has(9, 2) + has(0, 2) + has(2, 3) + has(5, 2) + 1

\* A second SetVertexType, on a decoder that already had a pipeline, gave
\* the full pipeline of 5 steps.
C10_Witness ==
    /\ decArgs.set
    /\ decArgs.again
    /\ dec.numSteps_ = 5
    /\ dec.steps_[0].slot = "weights"
    /\ dec.steps_[4].slot = "position"

=============================================================================
